---- MODULE Spec2Model ----
\* A model of directory_scanner.py: the recursive traversal (scan_recursive), the
\* inclusion filter (should_include_file), the scan worker (scan_directory) and the
\* UI-thread handlers that start and stop scans and edit the scan settings.
\*
\* Strings are sequences of one-character strings, so that startswith, suffix,
\* lower, strip, split and the sort order are computed, not assumed.
\* A relative path is the sequence of its segments (os.path.join of the names).
EXTENDS Integers, Sequences, FiniteSets, TLC

VARIABLES
    tree,                \* the directory tree under the scan root (unchanged by the program)
    max_depth,           \* self.max_depth          (tk.IntVar)
    include_hidden,      \* self.include_hidden     (tk.BooleanVar)
    show_empty_folders,  \* self.show_empty_folders (tk.BooleanVar; no widget writes it)
    file_extensions,     \* self.file_extensions    (tk.StringVar)
    scan_stopped,        \* self.scan_stopped
    is_scanning,         \* self.is_scanning
    directory_data,      \* self.directory_data: the result list
    file_stats,          \* self.file_stats: the counters
    threads,             \* the scan worker threads: call stack and position of each
    scanCfg,             \* history: the settings read by the latest start_scan
    cfgDirty,            \* history: a setting was edited while a worker of this result ran
    uiEvents,            \* history: number of button clicks and setting edits so far
    overlapped,          \* history: the latest start_scan ran while a worker was alive
    prev,                \* history: result, counters and settings of the previous scan
    lastDone,            \* history: what the worker that finished last saw
    justFinished,        \* history: a worker cleared is_scanning since the UI thread's last step
    tree_view,           \* self.tree: the paths of the items in the tree view
    scan_logs,           \* self.scan_logs: the entries add_log has written (as a set)
    completion,          \* the completion entry handed to add_log since the latest start_scan
    progress,            \* the progress update handed over last since the latest start_scan
    progress_var,        \* self.progress_var: the status text under the result
    detail_view,         \* self.detail_tree: the rows of the detail view, top to bottom
    sort_state,          \* tree_sort_column/_reverse and detail_sort_column/_reverse
    export_enabled       \* the export menu button is in state "normal"

vars == <<tree, max_depth, include_hidden, show_empty_folders, file_extensions,
          scan_stopped, is_scanning, directory_data, file_stats, threads,
          scanCfg, cfgDirty, uiEvents, overlapped, prev, lastDone, justFinished,
          tree_view, scan_logs, completion, progress,
          progress_var, detail_view, sort_state, export_enabled>>

\* ---------------------------------------------------------------- bounds
\* clicks on the scan button and edits of a setting in one run
MaxUiEvents == 3
\* largest depth the spinbox is set to in the model (the program allows up to 50)
MaxDepthChoice == 3
\* the longest succession of appended records the throttle is followed through
MaxRecords == 12
\* smallest depth the spinbox accepts
MinDepth == 1

\* ---------------------------------------------------------------- strings
Max(S) == CHOOSE x \in S : \A y \in S : y <= x

\* code points of the characters the model uses (Python compares str by code point)
CodePoint(c) ==
    CASE c = " " -> 32 [] c = "*" -> 42 [] c = "," -> 44 [] c = "." -> 46
      [] c = "/" -> 47
      [] c = "D" -> 68 [] c = "T" -> 84
      [] c = "a" -> 97 [] c = "b" -> 98 [] c = "c" -> 99 [] c = "d" -> 100
      [] c = "e" -> 101 [] c = "g" -> 103 [] c = "h" -> 104 [] c = "s" -> 115
      [] c = "t" -> 116

\* str.lower on one character
LowerChar(c) == CASE c = "T" -> "t" [] c = "D" -> "d" [] OTHER -> c

\* str.lower
Lower(s) == [i \in 1..Len(s) |-> LowerChar(s[i])]

\* s.startswith('.')
StartsWithDot(s) == Len(s) > 0 /\ s[1] = "."

\* str.strip: leading and trailing blanks removed
RECURSIVE LStrip(_)
LStrip(s) == IF s # <<>> /\ Head(s) = " " THEN LStrip(Tail(s)) ELSE s

RECURSIVE RStrip(_)
RStrip(s) ==
    IF s # <<>> /\ s[Len(s)] = " " THEN RStrip(SubSeq(s, 1, Len(s) - 1)) ELSE s

Strip(s) == RStrip(LStrip(s))

\* str.split(","): the pieces between the commas, empty pieces included
RECURSIVE SplitComma(_)
SplitComma(s) ==
    LET commas == {i \in 1..Len(s) : s[i] = ","}
    IN  IF commas = {} THEN <<s>>
        ELSE LET i == CHOOSE k \in commas : \A j \in commas : k <= j
             IN  <<SubSeq(s, 1, i - 1)>> \o SplitComma(SubSeq(s, i + 1, Len(s)))

\* pathlib's Path(p).suffix of the final component: from the last dot on, unless
\* that dot is the first or the last character
Suffix(name) ==
    LET dots == {i \in 1..Len(name) : name[i] = "."}
        i == IF dots = {} THEN 0 ELSE Max(dots)
    IN  IF 1 < i /\ i < Len(name) THEN SubSeq(name, i, Len(name)) ELSE <<>>

\* a < b for str
RECURSIVE StrLess(_, _)
StrLess(a, b) ==
    IF b = <<>> THEN FALSE
    ELSE IF a = <<>> THEN TRUE
    ELSE IF Head(a) = Head(b) THEN StrLess(Tail(a), Tail(b))
    ELSE CodePoint(Head(a)) < CodePoint(Head(b))

RECURSIVE InsertSorted(_, _)
InsertSorted(x, s) ==
    IF s = <<>> THEN <<x>>
    ELSE IF StrLess(x, Head(s)) THEN <<x>> \o s
    ELSE <<Head(s)>> \o InsertSorted(x, Tail(s))

\* a sort that sorts nothing
Unsorted(s) == s

\* items.sort(): ascending by code point
RECURSIVE SortNames(_)
SortNames(s) == IF s = <<>> THEN <<>> ELSE InsertSorted(Head(s), SortNames(Tail(s)))

\* ---------------------------------------------------------------- filter
\* an allowed_exts list whose tokens keep the letter case they were typed in
AllowedExtsCaseKept(extensions) ==
    LET toks == SplitComma(extensions)
        norm(i) == Strip(toks[i])
    IN  UNION {IF norm(i) = <<>> THEN {}
               ELSE IF StartsWithDot(norm(i)) THEN {norm(i), Tail(norm(i))}
               ELSE {<<".">> \o norm(i), norm(i)} : i \in 1..Len(toks)}

\* the allowed_exts list built from the filter string, as a set (only membership is used)
AllowedExts(extensions) ==
    LET toks == SplitComma(extensions)
        norm(i) == Lower(Strip(toks[i]))
    IN  UNION {IF norm(i) = <<>> THEN {}
               ELSE IF StartsWithDot(norm(i)) THEN {norm(i), Tail(norm(i))}
               ELSE {<<".">> \o norm(i), norm(i)} : i \in 1..Len(toks)}

\* should_include_file(file_path, file_name) under the given settings
ShouldIncludeFile(file_name, hidden, exts) ==
    IF ~hidden /\ StartsWithDot(file_name) THEN FALSE
    ELSE LET extensions == Strip(exts)
         IN  IF extensions # <<>> /\ extensions # <<"*">>
             THEN LET file_ext == Lower(Suffix(file_name))
                      file_ext_no_dot ==
                          IF StartsWithDot(file_ext) THEN Tail(file_ext) ELSE file_ext
                      allowed_exts == AllowedExts(extensions)
                  IN  ~(allowed_exts # {} /\ file_ext \notin allowed_exts
                        /\ file_ext_no_dot \notin allowed_exts)
             ELSE TRUE

\* a partition loop that takes every file
FileTakenAlways(item, hidden, exts) == TRUE

\* `if self.should_include_file(item_path, item)` of the partition loop
FileTaken(item, hidden, exts) == ShouldIncludeFile(item, hidden, exts)

\* a partition loop that skips no folder
FolderNeverSkipped(item, hidden) == FALSE

\* a partition loop that puts the folders through the extension filter too
FolderSkippedByExtension(item, hidden) ==
    (~hidden /\ StartsWithDot(item)) \/ ~ShouldIncludeFile(item, hidden, file_extensions)

\* the hidden-folder test of the partition loop
FolderSkipped(item, hidden) == ~hidden /\ StartsWithDot(item)

\* ---------------------------------------------------------------- file system
\* names
NameAT == <<"a", ".", "t">>
NameBD == <<"b", ".", "d">>
NameBT == <<"b", ".", "t">>
NameCUpper == <<"c", ".", "T">>
NameC == <<"c">>
NameDotH == <<".", "h">>
NameDotG == <<".", "g">>
NameS == <<"s">>
NameD == <<"d">>
NameE == <<"e">>
NameCE == <<"c", ".", "e">>

File(p) == [path |-> p, kind |-> "file"]
Dir(p) == [path |-> p, kind |-> "dir"]
\* a directory whose listing raises PermissionError
Denied(p) == [path |-> p, kind |-> "denied"]
\* a directory whose listing raises another OSError
Broken(p) == [path |-> p, kind |-> "broken"]

\* s/b.t, s/d/c.T: folders and files down to depth 3
TreeDeep ==
    {Dir(<<NameS>>), File(<<NameS, NameBT>>),
     Dir(<<NameS, NameD>>), File(<<NameS, NameD, NameCUpper>>)}

\* a hidden file, a hidden folder with a file in it, a visible file
TreeHidden ==
    {File(<<NameDotH>>), File(<<NameAT>>), Dir(<<NameDotG>>),
     File(<<NameDotG, NameBT>>)}

\* a folder whose listing is denied, then a folder holding only an empty folder
TreeEmpty ==
    {Denied(<<NameD>>), File(<<NameD, NameAT>>), Dir(<<NameS>>),
     Dir(<<NameS, NameE>>)}

\* a folder whose listing fails with an OSError, then an empty folder
TreeBroken == {Broken(<<NameD>>), Dir(<<NameS>>)}

\* three files in one folder: two extensions and a name without extension
TreeFlat == {File(<<NameAT>>), File(<<NameBD>>), File(<<NameC>>)}

\* one folder of files for the extension filter: extensions in both letter cases, an
\* extension no filter token names, a name without extension
TreeFilter ==
    {File(<<NameAT>>), File(<<NameBD>>), File(<<NameCUpper>>), File(<<NameCE>>),
     File(<<NameC>>)}

\* a folder whose name ends in an extension, holding a file of another extension,
\* and a plain folder holding a file that the filters of the model reject
TreeSuffixed ==
    {Dir(<<NameBD>>), File(<<NameBD, NameAT>>), Dir(<<NameS>>), File(<<NameS, NameCE>>)}

\* what the directory entry field names when it is not a directory: a file, a path
\* that does not exist, nothing at all
RootIsFile == {File(<<>>)}
RootMissing == {[path |-> <<>>, kind |-> "missing"]}
RootNotChosen == {[path |-> <<>>, kind |-> "none"]}

Trees ==
    {TreeDeep, TreeHidden, TreeEmpty, TreeBroken, TreeFlat,
     RootIsFile, RootMissing, RootNotChosen}

\* what self.directory_var.get() names
RootKind == IF \E e \in tree : e.path = <<>> THEN (CHOOSE e \in tree : e.path = <<>>).kind
            ELSE "dir"

\* the filter strings the user types: "*" and " T"
ExtAll == <<"*">>
ExtT == <<" ", "T">>
ExtChoices == {ExtAll, ExtT}
\* "d": the extension of a folder's name and of no file under it
ExtD == <<"d">>

\* str.join(","): the tokens with commas between them
RECURSIVE JoinComma(_)
JoinComma(toks) ==
    IF Len(toks) = 0 THEN <<>>
    ELSE IF Len(toks) = 1 THEN toks[1]
    ELSE toks[1] \o <<",">> \o JoinComma(Tail(toks))

\* the tokens a user types into the extension field: with and without the dot, in
\* both letter cases, padded, empty, a lone dot, the star, one no file carries
FilterTokens ==
    {<<"t">>, <<".", "t">>, <<"T">>, <<".", "T">>, <<" ", "d">>, <<".", "D">>,
     <<"h">>, <<>>, <<".">>, <<"*">>}

\* the filter strings of one or two tokens
FilterStrings ==
    {JoinComma(<<a>>) : a \in FilterTokens}
        \cup {JoinComma(<<a, b>>) : a \in FilterTokens, b \in FilterTokens}

KindOf(p) == (CHOOSE e \in tree : e.path = p).kind

\* os.path.isdir(item_path)
IsDir(p) == \E e \in tree : e.path = p /\ e.kind \in {"dir", "denied", "broken"}

\* the names os.listdir(path) returns
ListDir(p) ==
    {e.path[Len(e.path)] : e \in {x \in tree : Len(x.path) = Len(p) + 1
                                              /\ SubSeq(x.path, 1, Len(p)) = p}}

\* os.listdir promises no order: every arrangement of the names
Listings(p) ==
    LET S == ListDir(p)
    IN  {f \in [1..Cardinality(S) -> S] : \A i, j \in DOMAIN f : i # j => f[i] # f[j]}

\* ---------------------------------------------------------------- result and counters
\* one record of directory_data (size and modification time are left out: the model's
\* tree has no sizes or times, and no claim reads them)
FileEntry(p) == [path |-> p, name |-> p[Len(p)], kind |-> "File"]
FolderEntry(p) == [path |-> p, name |-> p[Len(p)], kind |-> "Directory"]

\* the keys of file_stats that are not extensions
KeyFiles == <<"files">>
KeyFolders == <<"folders">>
KeyNoExt == <<"noext">>

\* file_stats.get(k, 0)
StatGet(fs, k) == IF k \in DOMAIN fs THEN fs[k] ELSE 0

\* file_stats[k] = file_stats.get(k, 0) + 1
StatInc(fs, k) ==
    IF k \in DOMAIN fs THEN [fs EXCEPT ![k] = @ + 1] ELSE (k :> 1) @@ fs

\* the counters after one file is counted: the file counter and its extension bucket
CountFile(fs, name) ==
    LET file_ext == Lower(Suffix(name))
    IN  StatInc(StatInc(fs, KeyFiles), IF file_ext # <<>> THEN file_ext ELSE KeyNoExt)

\* the counters after one kept folder is counted
CountFolder(fs) == StatInc(fs, KeyFolders)

NoStats == [k \in {} |-> 0]

\* ---------------------------------------------------------------- worker threads
Cfg ==
    [max_depth |-> max_depth, include_hidden |-> include_hidden,
     show_empty_folders |-> show_empty_folders, file_extensions |-> file_extensions]

\* one activation of scan_recursive(path, parent_item, relative_path, current_depth)
NewFrame(p, d) ==
    [path |-> p, depth |-> d, pc |-> "entry", items |-> <<>>, files |-> <<>>,
     folders |-> <<>>, has_valid_content |-> FALSE]

\* a thread: its position in scan_directory and its stack of scan_recursive frames.
\* History fields: stopRequested (stop_scan ran while it was alive), observedStop (one
\* of its flag checks found the flag set), lateAppend (it appended after that),
\* stale (a later start_scan ran while it was alive), staleAppend (it appended after
\* that).
IdleThread ==
    [pc |-> "idle", stack |-> <<>>, completed |-> FALSE, stopRequested |-> FALSE,
     observedStop |-> FALSE, lateAppend |-> FALSE, stale |-> FALSE,
     staleAppend |-> FALSE]

Observed(th, t) == [th EXCEPT ![t].observedStop = TRUE]
Appended(th, t) ==
    [th EXCEPT ![t].lateAppend = @ \/ th[t].observedStop,
               ![t].staleAppend = @ \/ th[t].stale]

\* a stop separates two starts, so n clicks leave at most (n + 1) / 2 threads alive
Slots == 1..((MaxUiEvents + 1) \div 2)
Alive(t) == threads[t].pc # "idle"
AnyAlive == \E t \in Slots : Alive(t)
Top(t) == threads[t].stack[Len(threads[t].stack)]
InFrame(t, pc) == threads[t].pc = "recursing" /\ Top(t).pc = pc

\* where a frame goes on after the partition loop, the files loop, the folders loop
AfterFiles(f) == IF f.folders # <<>> THEN "folders" ELSE "return"
AfterPartition(f) == IF f.files # <<>> THEN "files" ELSE AfterFiles(f)

SetTop(t, f) ==
    [threads EXCEPT ![t].stack = [@ EXCEPT ![Len(@)] = f]]

ui == <<max_depth, include_hidden, show_empty_folders, file_extensions>>
flags == <<scan_stopped, is_scanning>>
history == <<scanCfg, cfgDirty, uiEvents, overlapped, prev, lastDone, justFinished>>
uiOut == <<tree_view, scan_logs, completion, progress>>
present == <<progress_var, detail_view, sort_state, export_enabled>>

\* ---------------------------------------------------------------- scan_recursive
\* a depth check that is off by one
DepthLimitOffByOne(current_depth, limit) == current_depth > limit

\* a scan_recursive without the depth check
DepthLimitIgnored(current_depth, limit) == FALSE

\* `if current_depth >= self.max_depth.get(): return False`
DepthLimitReached(current_depth, limit) == current_depth >= limit

\* os.listdir(path) raises: PermissionError for a denied folder, another OSError for
\* a broken folder and for a root that is not a directory
Unreadable(p) == IF p = <<>> THEN RootKind # "dir" ELSE KindOf(p) \in {"denied", "broken"}

\* a handler that logs every listing failure as an error
SeverityAlwaysError(p) == "error"

\* the log type of the diagnostic: "warning" for PermissionError, "error" otherwise
SeverityOf(p) == IF p # <<>> /\ KindOf(p) = "denied" THEN "warning" ELSE "error"

\* the entry add_log writes for a folder that could not be listed
DirDiagnostic(p) == [what |-> "dir_error", path |-> p, severity |-> SeverityOf(p)]

\* tree.delete(item) removes the item and the items below it
WithoutSubtree(view, p) ==
    {q \in view : ~(Len(q) >= Len(p) /\ SubSeq(q, 1, Len(p)) = p)}

\* a keep test that forgets the show-empty-folders setting
KeepFolderContentOnly(folder_has_content, show_empty) == folder_has_content

\* `if folder_has_content or self.show_empty_folders.get()`
KeepFolder(folder_has_content, show_empty) == folder_has_content \/ show_empty

\* a flag check that never finds the flag set
StopNeverObserved == FALSE

\* the flag check that opens scan_recursive and each iteration of its three loops
StopObserved == scan_stopped

\* The top of scan_recursive: the stop check, the depth check, os.listdir and the sort.
\* A stopped scan, a branch at the depth limit and an unreadable folder return False;
\* the handlers of the listing's exceptions hand a diagnostic to add_log. The call for
\* the root is preceded by scan_directory's insert of the root item into the tree view.
Entry(t) ==
    /\ InFrame(t, "entry")
    /\ LET f == Top(t)
       IN  IF StopObserved \/ DepthLimitReached(f.depth, max_depth) \/ Unreadable(f.path)
           THEN threads' = IF StopObserved
                           THEN Observed(SetTop(t, [f EXCEPT !.pc = "return"]), t)
                           ELSE SetTop(t, [f EXCEPT !.pc = "return"])
           ELSE \E listing \in Listings(f.path) :
                    LET items == SortNames(listing)
                    IN  threads' = SetTop(t, [f EXCEPT !.items = items,
                              !.pc = IF items = <<>> THEN "return" ELSE "partition"])
    /\ LET f == Top(t)
       IN  /\ tree_view' = IF f.depth = 0 THEN tree_view \cup {<<>>} ELSE tree_view
           /\ scan_logs' =
                  IF ~StopObserved /\ ~DepthLimitReached(f.depth, max_depth)
                     /\ Unreadable(f.path)
                  THEN scan_logs \cup {DirDiagnostic(f.path)}
                  ELSE scan_logs
    /\ UNCHANGED <<tree, present, ui, flags, directory_data, file_stats, history,
                   completion, progress>>

\* One iteration of `for item in items`: break when stopped, else put the item with
\* the folders (unless hidden) or with the files (if should_include_file accepts it).
Partition(t) ==
    /\ InFrame(t, "partition")
    /\ LET f == Top(t)
           item == Head(f.items)
           item_path == Append(f.path, item)
           g == IF IsDir(item_path)
                THEN IF FolderSkipped(item, include_hidden) THEN f
                     ELSE [f EXCEPT !.folders = Append(@, item)]
                ELSE IF FileTaken(item, include_hidden, file_extensions)
                     THEN [f EXCEPT !.files = Append(@, item)]
                     ELSE f
           h == [g EXCEPT !.items = Tail(@)]
       IN  IF StopObserved
           THEN threads' = Observed(SetTop(t, [f EXCEPT !.pc = AfterPartition(f)]), t)
           ELSE threads' = SetTop(t, [h EXCEPT
                    !.pc = IF h.items = <<>> THEN AfterPartition(h) ELSE "partition"])
    /\ UNCHANGED <<tree, present, ui, flags, directory_data, file_stats, history, uiOut>>

\* One iteration of `for item, item_path in files`, up to directory_data.append:
\* break when stopped, else insert the file's item into the tree view and append the
\* File record.
FileAppend(t) ==
    /\ InFrame(t, "files")
    /\ LET f == Top(t)
       IN  IF StopObserved
           THEN /\ threads' = Observed(SetTop(t, [f EXCEPT !.pc = AfterFiles(f)]), t)
                /\ UNCHANGED <<directory_data, tree_view>>
           ELSE /\ tree_view' = tree_view \cup {Append(f.path, Head(f.files))}
                /\ directory_data' =
                       Append(directory_data, FileEntry(Append(f.path, Head(f.files))))
                /\ threads' = Appended(SetTop(t, [f EXCEPT !.pc = "filestat"]), t)
    /\ UNCHANGED <<tree, present, ui, flags, file_stats, history, scan_logs, completion,
                   progress>>

\* the period of the progress throttle
ProgressEvery == 10

\* `if len(self.directory_data) % 10 == 0`
ProgressDue(n) == n % ProgressEvery = 0

NoProgress == [at |-> 0, files |-> 0, folders |-> 0]

\* The progress update after a file is processed: when the throttle lets it pass, the
\* numbers of File and Directory records (at: the length of the list then).
ProgressAfter(data, old) ==
    IF ProgressDue(Len(data))
    THEN [at |-> Len(data),
          files |-> Cardinality({i \in DOMAIN data : data[i].kind = "File"}),
          folders |-> Cardinality({i \in DOMAIN data : data[i].kind = "Directory"})]
    ELSE old

\* The rest of the iteration: the counters, has_valid_content = True and the
\* throttled progress update.
FileStat(t) ==
    /\ InFrame(t, "filestat")
    /\ LET f == Top(t)
           g == [f EXCEPT !.files = Tail(@), !.has_valid_content = TRUE]
       IN  /\ file_stats' = CountFile(file_stats, Head(f.files))
           /\ threads' = SetTop(t, [g EXCEPT
                   !.pc = IF g.files # <<>> THEN "files" ELSE AfterFiles(g)])
    /\ progress' = ProgressAfter(directory_data, progress)
    /\ UNCHANGED <<tree, present, ui, flags, directory_data, history,
                   tree_view, scan_logs, completion>>

\* One iteration of `for item, item_path in folders`, up to the recursive call:
\* break when stopped, else insert the folder's item into the tree view and call
\* scan_recursive at current_depth + 1.
FolderCall(t) ==
    /\ InFrame(t, "folders")
    /\ LET f == Top(t)
       IN  IF StopObserved
           THEN /\ threads' = Observed(SetTop(t, [f EXCEPT !.pc = "return"]), t)
                /\ UNCHANGED tree_view
           ELSE /\ tree_view' = tree_view \cup {Append(f.path, Head(f.folders))}
                /\ threads' = [threads EXCEPT ![t].stack =
                       Append([@ EXCEPT ![Len(@)] = [f EXCEPT !.pc = "await"]],
                              NewFrame(Append(f.path, Head(f.folders)), f.depth + 1))]
    /\ UNCHANGED <<tree, present, ui, flags, directory_data, file_stats, history,
                   scan_logs, completion, progress>>

\* The recursive call returns has_valid_content to the caller, which keeps the folder
\* (appends its Directory record) or drops it (deletes its item from the tree view).
FolderReturn(t) ==
    /\ InFrame(t, "return")
    /\ Len(threads[t].stack) >= 2
    /\ LET st == threads[t].stack
           child == st[Len(st)]
           f == st[Len(st) - 1]
           rest == SubSeq(st, 1, Len(st) - 2)
           dropped == [f EXCEPT !.folders = Tail(@)]
       IN  IF KeepFolder(child.has_valid_content, show_empty_folders)
           THEN /\ directory_data' = Append(directory_data, FolderEntry(child.path))
                /\ threads' = Appended([threads EXCEPT ![t].stack =
                        Append(rest, [f EXCEPT !.pc = "dirstat"])], t)
                /\ UNCHANGED tree_view
           ELSE /\ UNCHANGED directory_data
                /\ tree_view' = WithoutSubtree(tree_view, child.path)
                /\ threads' = [threads EXCEPT ![t].stack =
                        Append(rest, [dropped EXCEPT
                            !.pc = IF dropped.folders # <<>> THEN "folders" ELSE "return"])]
    /\ UNCHANGED <<tree, present, ui, flags, file_stats, history, scan_logs, completion,
                   progress>>

\* The folder counter and has_valid_content = True for a kept folder.
FolderStat(t) ==
    /\ InFrame(t, "dirstat")
    /\ LET f == Top(t)
           g == [f EXCEPT !.folders = Tail(@), !.has_valid_content = TRUE]
       IN  /\ file_stats' = CountFolder(file_stats)
           /\ threads' = SetTop(t, [g EXCEPT
                   !.pc = IF g.folders # <<>> THEN "folders" ELSE "return"])
    /\ UNCHANGED <<tree, present, ui, flags, directory_data, history, uiOut>>

\* The records an undisturbed call scan_recursive(p, ., p, depth) appends under the
\* settings c, as a set: the accepted files of p, and for each folder of p that is
\* not skipped the records of its subtree and, if kept, its own record.
RECURSIVE ScanSet(_, _, _)
ScanSet(p, depth, c) ==
    IF DepthLimitReached(depth, c.max_depth) \/ Unreadable(p) THEN {}
    ELSE LET names == ListDir(p)
             files == {n \in names : /\ ~IsDir(Append(p, n))
                                     /\ FileTaken(n, c.include_hidden, c.file_extensions)}
             folders == {n \in names : /\ IsDir(Append(p, n))
                                       /\ ~FolderSkipped(n, c.include_hidden)}
             sub(n) == ScanSet(Append(p, n), depth + 1, c)
         IN  {FileEntry(Append(p, n)) : n \in files}
             \cup UNION {sub(n) \cup IF KeepFolder(sub(n) # {}, c.show_empty_folders)
                                     THEN {FolderEntry(Append(p, n))}
                                     ELSE {} : n \in folders}

\* ---------------------------------------------------------------- scan_directory
\* a completion entry that counts every record as a file
CountsAllAsFiles(data) == [posted |-> TRUE, files |-> Len(data), folders |-> 0]

\* file_count and folder_count of the completion entry, computed from directory_data
CompletionCounts(data) ==
    [posted |-> TRUE,
     files |-> Cardinality({i \in DOMAIN data : data[i].kind = "File"}),
     folders |-> Cardinality({i \in DOMAIN data : data[i].kind = "Directory"})]

NoCompletion == [posted |-> FALSE, files |-> 0, folders |-> 0]

\* update_display: the rows of the detail view are the File records of the result
FilesOnly(data) == SelectSeq(data, LAMBDA e : e.kind = "File")

\* update_scan_button_state(False): the status text is the completed one with the
\* numbers of files and folders when the result list is not empty, the ready one
\* otherwise
ButtonOffStatus(data) == IF data # <<>> THEN "scan_done_counts" ELSE "ready"

\* scan_recursive(root_path, root_item, "", 0) has returned: `if not self.scan_stopped`
\* chooses the completion branch, which hands the completion entry with the counts to
\* add_log and hands over update_display, update_stats_display (it reads the counters
\* with file_stats.get and writes the widgets of the statistics page only, which the
\* model leaves out), the enabling of the export button and the completed status
\* text, or the stopped branch.
ScanCheck(t) ==
    /\ InFrame(t, "return")
    /\ Len(threads[t].stack) = 1
    /\ threads' = [threads EXCEPT ![t].stack = <<>>, ![t].pc = "finally",
                                  ![t].completed = ~scan_stopped]
    /\ completion' = IF ~scan_stopped THEN CompletionCounts(directory_data) ELSE completion
    /\ IF ~scan_stopped
       THEN /\ detail_view' = FilesOnly(directory_data)
            /\ export_enabled' = TRUE
            /\ progress_var' = "scan_done"
            /\ UNCHANGED sort_state
       ELSE UNCHANGED present
    /\ UNCHANGED <<tree, ui, flags, directory_data, file_stats, history,
                   tree_view, scan_logs, progress>>

\* `finally: self.is_scanning = False` and the hand-over of
\* update_scan_button_state(False); the thread ends.
Finally(t) ==
    /\ threads[t].pc = "finally"
    /\ is_scanning' = FALSE
    /\ threads' = [threads EXCEPT ![t] = IdleThread]
    /\ lastDone' = [any |-> TRUE, stopRequested |-> threads[t].stopRequested,
                    flag |-> scan_stopped, completed |-> threads[t].completed]
    /\ justFinished' = (justFinished \/ is_scanning)
    /\ progress_var' = ButtonOffStatus(directory_data)
    /\ UNCHANGED <<detail_view, sort_state, export_enabled>>
    /\ UNCHANGED <<tree, ui, scan_stopped, directory_data, file_stats,
                   scanCfg, cfgDirty, uiEvents, overlapped, prev, uiOut>>

\* ---------------------------------------------------------------- UI thread
NoCfg ==
    [max_depth |-> 0, include_hidden |-> FALSE, show_empty_folders |-> FALSE,
     file_extensions |-> <<>>]
NoPrev == [data |-> <<>>, stats |-> NoStats, cfg |-> NoCfg]
NoneDone == [any |-> FALSE, stopRequested |-> FALSE, flag |-> FALSE, completed |-> FALSE]

\* the latest scan ran alone, under settings nobody edited, and was not stopped
CleanResult ==
    /\ ~AnyAlive
    /\ lastDone.any
    /\ ~scan_stopped
    /\ ~overlapped
    /\ ~cfgDirty

\* the entry add_log writes when start_scan refuses the root
ScanFailed ==
    [what |-> "scan_failed", path |-> <<>>,
     severity |-> IF RootKind = "none" THEN "warning" ELSE "error"]

\* a start_scan that validates the directory after it has cleared the result
StartScanRefusedClearing ==
    /\ RootKind \in {"none", "missing"}
    /\ scan_logs' = scan_logs \cup {ScanFailed}
    /\ justFinished' = FALSE
    /\ directory_data' = <<>>
    /\ file_stats' = NoStats
    /\ UNCHANGED <<tree, present, ui, flags, threads,
                   scanCfg, cfgDirty, overlapped, prev, lastDone, tree_view, completion,
                   progress>>

\* start_scan with no directory chosen or a path that does not exist: a message box,
\* a log entry, and nothing else.
StartScanRefused ==
    /\ RootKind \in {"none", "missing"}
    /\ scan_logs' = scan_logs \cup {ScanFailed}
    /\ justFinished' = FALSE
    /\ UNCHANGED <<tree, present, ui, flags, directory_data, file_stats, threads,
                   scanCfg, cfgDirty, overlapped, prev, lastDone, tree_view, completion,
                   progress>>

\* start_scan with a path that exists: the flags, the cleared tree view, result and
\* counters, and a new thread running scan_directory.
StartScan ==
    /\ RootKind \notin {"none", "missing"}
    /\ tree_view' = {}
    /\ completion' = NoCompletion
    /\ progress' = NoProgress
    /\ scan_stopped' = FALSE
    /\ is_scanning' = TRUE
    /\ directory_data' = <<>>
    /\ file_stats' = NoStats
    /\ LET t == CHOOSE s \in Slots : ~Alive(s) /\ \A r \in Slots : ~Alive(r) => s <= r
       IN  threads' = [r \in Slots |->
               IF r = t
               THEN [IdleThread EXCEPT !.pc = "recursing", !.stack = <<NewFrame(<<>>, 0)>>]
               ELSE IF Alive(r) THEN [threads[r] EXCEPT !.stale = TRUE] ELSE threads[r]]
    /\ scanCfg' = Cfg
    /\ cfgDirty' = IF AnyAlive THEN cfgDirty \/ scanCfg # Cfg ELSE FALSE
    /\ overlapped' = AnyAlive
    /\ prev' = IF CleanResult
               THEN [data |-> directory_data, stats |-> file_stats, cfg |-> scanCfg]
               ELSE NoPrev
    /\ justFinished' = FALSE
    /\ progress_var' = "scanning"
    /\ detail_view' = <<>>
    /\ export_enabled' = FALSE
    /\ UNCHANGED <<tree, ui, lastDone, scan_logs, sort_state>>

\* a stop_scan that clears the result and the counters as start_scan does
StopScanClearing ==
    /\ scan_stopped' = TRUE
    /\ is_scanning' = FALSE
    /\ directory_data' = <<>>
    /\ file_stats' = NoStats
    /\ threads' = [t \in Slots |->
           IF Alive(t) THEN [threads[t] EXCEPT !.stopRequested = TRUE] ELSE threads[t]]
    /\ justFinished' = FALSE
    /\ progress_var' = "stopped"
    /\ export_enabled' = (export_enabled \/ directory_data # <<>>)
    /\ UNCHANGED <<detail_view, sort_state>>
    /\ UNCHANGED <<tree, ui, scanCfg, cfgDirty, overlapped, prev, lastDone, uiOut>>

\* stop_scan: both flags at once, whatever the worker is doing.
StopScan ==
    /\ scan_stopped' = TRUE
    /\ is_scanning' = FALSE
    /\ threads' = [t \in Slots |->
           IF Alive(t) THEN [threads[t] EXCEPT !.stopRequested = TRUE] ELSE threads[t]]
    /\ justFinished' = FALSE
    /\ progress_var' = "stopped"
    /\ export_enabled' = (export_enabled \/ directory_data # <<>>)
    /\ UNCHANGED <<detail_view, sort_state>>
    /\ UNCHANGED <<tree, ui, directory_data, file_stats,
                   scanCfg, cfgDirty, overlapped, prev, lastDone, uiOut>>

\* one more click or edit
UiEvent == uiEvents < MaxUiEvents /\ uiEvents' = uiEvents + 1

\* toggle_scan, the command of the scan button
ToggleScanStop ==
    /\ UiEvent
    /\ is_scanning
    /\ StopScan

\* toggle_scan that found is_scanning set (line 537) before the worker's finally
\* cleared it and calls stop_scan (line 538) after: the worker's steps in between
\* read nothing toggle_scan has written, so the call is the whole of the step.
ToggleScanStopLate ==
    /\ UiEvent
    /\ ~is_scanning
    /\ justFinished
    /\ StopScan

ToggleScanStart ==
    /\ UiEvent
    /\ ~is_scanning
    /\ StartScan

ToggleScanRefused ==
    /\ UiEvent
    /\ ~is_scanning
    /\ StartScanRefused

\* a setting edited on the UI thread; the widgets stay enabled during a scan.
\* Edits made before the first scan are the choice of settings in Init.
Edited ==
    /\ UiEvent
    /\ scanCfg # NoCfg
    /\ cfgDirty' = (cfgDirty \/ AnyAlive)
    /\ justFinished' = FALSE
    /\ UNCHANGED <<tree, present, flags, directory_data, file_stats, threads,
                   scanCfg, overlapped, prev, lastDone, uiOut>>

SetMaxDepth ==
    /\ \E d \in MinDepth..MaxDepthChoice : d # max_depth /\ max_depth' = d
    /\ UNCHANGED <<include_hidden, show_empty_folders, file_extensions>>
    /\ Edited

SetIncludeHidden ==
    /\ include_hidden' = ~include_hidden
    /\ UNCHANGED <<max_depth, show_empty_folders, file_extensions>>
    /\ Edited

SetFileExtensions ==
    /\ \E x \in ExtChoices : x # file_extensions /\ file_extensions' = x
    /\ UNCHANGED <<max_depth, include_hidden, show_empty_folders>>
    /\ Edited

\* ---------------------------------------------------------------- presentation
\* no column clicked yet
NoSort ==
    [tree_sort_column |-> "none", tree_sort_reverse |-> FALSE,
     detail_sort_column |-> "none", detail_sort_reverse |-> FALSE]

\* the relative path as the row shows it: the names with the separator between them
RECURSIVE PathString(_)
PathString(p) ==
    IF Len(p) = 0 THEN <<>>
    ELSE IF Len(p) = 1 THEN p[1]
    ELSE p[1] \o <<"/">> \o PathString(Tail(p))

\* the columns of the two views a click sorts by (of the detail view: the path and
\* the type, which is the same for every row)
TreeColumns == {"name"}
DetailColumns == {"path", "type"}

\* get_detail_item_data(item, column): the lower-cased cell
DetailItemData(row, column) ==
    IF column = "path" THEN Lower(PathString(row.path)) ELSE <<"f">>

\* items.sort(key=..., reverse=...): stable, equal keys keep their order either way
RECURSIVE InsertRow(_, _, _, _)
InsertRow(x, rows, column, reverse) ==
    IF rows = <<>> THEN <<x>>
    ELSE LET kx == DetailItemData(x, column)
             kh == DetailItemData(Head(rows), column)
             headFirst == IF reverse THEN StrLess(kx, kh) ELSE StrLess(kh, kx)
         IN  IF headFirst
             THEN <<Head(rows)>> \o InsertRow(x, Tail(rows), column, reverse)
             ELSE <<x>> \o rows

RECURSIVE SortRows(_, _, _)
SortRows(rows, column, reverse) ==
    IF rows = <<>> THEN <<>>
    ELSE InsertRow(Head(rows), SortRows(Tail(rows), column, reverse), column, reverse)

\* what a handler of the result page leaves alone: the scan, its result and counters
PresentStep ==
    /\ UiEvent
    /\ justFinished' = FALSE
    /\ UNCHANGED <<tree, ui, flags, directory_data, file_stats, threads, scanCfg,
                   cfgDirty, overlapped, prev, lastDone, tree_view, completion,
                   progress, progress_var, export_enabled>>

\* sort_tree_column: the direction flips on a second click of the same column; the
\* top-level items of the tree view are moved (the model keeps the items as a set)
SortTreeColumn ==
    /\ \E column \in TreeColumns :
          sort_state' = [sort_state EXCEPT
              !.tree_sort_reverse =
                  IF sort_state.tree_sort_column = column THEN ~@ ELSE FALSE,
              !.tree_sort_column = column]
    /\ UNCHANGED <<detail_view, scan_logs>>
    /\ PresentStep

\* sort_detail_column: the same for the detail view, whose rows are read, sorted,
\* deleted and inserted again
SortDetailColumn ==
    /\ \E column \in DetailColumns :
          LET reverse == IF sort_state.detail_sort_column = column
                         THEN ~sort_state.detail_sort_reverse ELSE FALSE
          IN  /\ sort_state' = [sort_state EXCEPT !.detail_sort_reverse = reverse,
                                                  !.detail_sort_column = column]
              /\ detail_view' = SortRows(detail_view, column, reverse)
    /\ UNCHANGED scan_logs
    /\ PresentStep

\* change_display_mode: show_view and, if there is a result, update_display
ChangeDisplayMode ==
    /\ detail_view' = IF directory_data # <<>> THEN FilesOnly(directory_data)
                      ELSE detail_view
    /\ UNCHANGED <<sort_state, scan_logs>>
    /\ PresentStep

\* the name export_data that export_to_json hands to json.dump is bound nowhere in
\* the module: evaluating it raises NameError
ExportDataBound == FALSE

\* how an export ends: "warning" without a result, else "success" when the file was
\* written and the success dialog shown, "error" when the try block raised
ExportOutcome(format, data, writable) ==
    IF data = <<>> THEN "warning"
    ELSE IF writable /\ (format = "json" => ExportDataBound) THEN "success"
    ELSE "error"

\* export_to_excel, export_to_csv, export_to_json (the commands of the export menu,
\* which opens when the button is enabled): the files-only list is built from copies
\* of the records, the file is written, and add_log records how it ended. With a
\* result and no file chosen in the dialog nothing happens.
ExportTo(format, chosen, writable) ==
    /\ scan_logs' =
           IF directory_data # <<>> /\ ~chosen THEN scan_logs
           ELSE scan_logs \cup
                    {[what |-> format, path |-> <<>>,
                      severity |-> ExportOutcome(format, directory_data, writable)]}
    /\ UNCHANGED <<detail_view, sort_state>>
    /\ PresentStep

ExportToExcel ==
    /\ export_enabled
    /\ \E chosen, writable \in BOOLEAN : ExportTo("excel", chosen, writable)

ExportToCsv ==
    /\ export_enabled
    /\ \E chosen, writable \in BOOLEAN : ExportTo("csv", chosen, writable)

ExportToJson ==
    /\ export_enabled
    /\ \E chosen, writable \in BOOLEAN : ExportTo("json", chosen, writable)

\* ---------------------------------------------------------------- specification
\* some entry of the tree has a name that begins with a dot
HasHiddenNames == \E e \in tree : \E k \in 1..Len(e.path) : StartsWithDot(e.path[k])

\* some entry of the tree is a folder
HasFolders == \E e \in tree : e.path # <<>> /\ e.kind \in {"dir", "denied", "broken"}

\* The settings are the user's: any values the widgets offer, chosen before the first
\* scan. The tree is the environment's. A setting that no entry of the tree can make
\* a difference for starts at its default.
Init ==
    /\ tree \in Trees
    /\ max_depth \in MinDepth..MaxDepthChoice
    /\ include_hidden \in IF HasHiddenNames THEN BOOLEAN ELSE {FALSE}
    /\ show_empty_folders \in IF HasFolders THEN BOOLEAN ELSE {FALSE}
    /\ file_extensions \in ExtChoices
    /\ scan_stopped = FALSE
    /\ is_scanning = FALSE
    /\ directory_data = <<>>
    /\ file_stats = NoStats
    /\ threads = [t \in Slots |-> IdleThread]
    /\ scanCfg = NoCfg
    /\ cfgDirty = FALSE
    /\ uiEvents = 0
    /\ overlapped = FALSE
    /\ prev = NoPrev
    /\ lastDone = NoneDone
    /\ justFinished = FALSE
    /\ tree_view = {}
    /\ scan_logs = {}
    /\ completion = NoCompletion
    /\ progress = NoProgress
    /\ progress_var = "ready"
    /\ detail_view = <<>>
    /\ sort_state = NoSort
    /\ export_enabled = FALSE

Worker(t) ==
    \/ Entry(t)
    \/ Partition(t)
    \/ FileAppend(t)
    \/ FileStat(t)
    \/ FolderCall(t)
    \/ FolderReturn(t)
    \/ FolderStat(t)
    \/ ScanCheck(t)
    \/ Finally(t)

Next ==
    \/ \E t \in Slots : Worker(t)
    \/ ToggleScanStart
    \/ ToggleScanRefused
    \/ ToggleScanStop
    \/ ToggleScanStopLate
    \/ SetMaxDepth
    \/ SetIncludeHidden
    \/ SetFileExtensions

Spec == Init /\ [][Next]_vars

\* ---------------------------------------------------------------- starts and stops alone
\* The scan button alone, on the trees with files and with nested folders, every
\* extension accepted, hidden entries left out. A started thread keeps running until
\* scan_directory returns: the interpreter schedules every live thread, and no step
\* of the worker waits for the UI thread.
InitCancel ==
    /\ Init
    /\ tree \in {TreeDeep, TreeFlat}
    /\ ~include_hidden
    /\ file_extensions = ExtAll

NextCancel ==
    \/ \E t \in Slots : Worker(t)
    \/ ToggleScanStart
    \/ ToggleScanStop
    \/ ToggleScanStopLate

SpecCancel ==
    InitCancel /\ [][NextCancel]_vars /\ \A t \in Slots : WF_vars(Worker(t))

\* ---------------------------------------------------------------- the throttle alone
\* The two places of scan_recursive that append to the result, for one worker and any
\* succession of File and Directory records: a file is appended, counted and followed
\* by the throttle check; a kept folder is appended and counted without a check.
AppendFileRecord ==
    /\ Len(directory_data) < MaxRecords
    /\ directory_data' = Append(directory_data, FileEntry(<<NameAT>>))
    /\ file_stats' = CountFile(file_stats, NameAT)
    /\ progress' = ProgressAfter(directory_data', progress)
    /\ UNCHANGED <<tree, present, ui, flags, threads, history, tree_view, scan_logs,
                   completion>>

\* a folder is kept when it has content (a record was appended before its own) or
\* show_empty_folders is set
AppendFolderRecord ==
    /\ Len(directory_data) < MaxRecords
    /\ KeepFolder(directory_data # <<>>, show_empty_folders)
    /\ directory_data' = Append(directory_data, FolderEntry(<<NameS>>))
    /\ file_stats' = CountFolder(file_stats)
    /\ UNCHANGED <<tree, present, ui, flags, threads, history, uiOut>>

InitThrottle ==
    /\ Init
    /\ tree = TreeFlat
    /\ max_depth = MinDepth
    /\ ~include_hidden
    /\ file_extensions = ExtAll

NextThrottle == AppendFileRecord \/ AppendFolderRecord

SpecThrottle == InitThrottle /\ [][NextThrottle]_vars

\* ---------------------------------------------------------------- the result page
\* The scan button and the handlers of the result page, on the trees with files and
\* with nested folders, every extension accepted.
InitPresent ==
    /\ Init
    /\ tree \in {TreeDeep, TreeFlat}
    /\ file_extensions = ExtAll

NextPresent ==
    \/ \E t \in Slots : Worker(t)
    \/ ToggleScanStart
    \/ ToggleScanStop
    \/ ToggleScanStopLate
    \/ SortTreeColumn
    \/ SortDetailColumn
    \/ ChangeDisplayMode
    \/ ExportToExcel
    \/ ExportToCsv
    \/ ExportToJson

SpecPresent == InitPresent /\ [][NextPresent]_vars

\* ---------------------------------------------------------------- folders under a filter
\* Scans of the tree whose folder names carry an extension, under an extension filter.
InitFolders ==
    /\ tree = TreeSuffixed
    /\ max_depth \in MinDepth..MaxDepthChoice
    /\ include_hidden = FALSE
    /\ show_empty_folders \in BOOLEAN
    /\ file_extensions \in {ExtT, ExtD}
    /\ scan_stopped = FALSE
    /\ is_scanning = FALSE
    /\ directory_data = <<>>
    /\ file_stats = NoStats
    /\ threads = [t \in Slots |-> IdleThread]
    /\ scanCfg = NoCfg
    /\ cfgDirty = FALSE
    /\ uiEvents = 0
    /\ overlapped = FALSE
    /\ prev = NoPrev
    /\ lastDone = NoneDone
    /\ justFinished = FALSE
    /\ tree_view = {}
    /\ scan_logs = {}
    /\ completion = NoCompletion
    /\ progress = NoProgress
    /\ progress_var = "ready"
    /\ detail_view = <<>>
    /\ sort_state = NoSort
    /\ export_enabled = FALSE

NextFolders ==
    \/ \E t \in Slots : Worker(t)
    \/ ToggleScanStart
    \/ ToggleScanStop

SpecFolders == InitFolders /\ [][NextFolders]_vars

\* ---------------------------------------------------------------- a start refused
\* The directory entry retyped while no worker runs (a worker keeps the path it read
\* when it began): emptied, or made to name a path that does not exist.
EditDirectory ==
    /\ UiEvent
    /\ ~AnyAlive
    /\ tree' \in {RootNotChosen, RootMissing}
    /\ tree' # tree
    /\ justFinished' = FALSE
    /\ UNCHANGED <<present, ui, flags, directory_data, file_stats, threads,
                   scanCfg, cfgDirty, overlapped, prev, lastDone, uiOut>>

\* Scans of a directory, then the entry retyped and the scan button clicked again.
InitRefuse ==
    /\ Init
    /\ tree \in {TreeDeep, TreeFlat}
    /\ file_extensions = ExtAll

NextRefuse ==
    \/ \E t \in Slots : Worker(t)
    \/ ToggleScanStart
    \/ ToggleScanStop
    \/ ToggleScanStopLate
    \/ ToggleScanRefused
    \/ EditDirectory

SpecRefuse == InitRefuse /\ [][NextRefuse]_vars

\* ---------------------------------------------------------------- the filter alone
\* One scan after the other of a folder of files, for every filter string: the
\* partition loop applies should_include_file to every name.
InitFilter ==
    /\ tree = TreeFilter
    /\ max_depth = MinDepth
    /\ include_hidden \in BOOLEAN
    /\ show_empty_folders = FALSE
    /\ file_extensions \in FilterStrings
    /\ scan_stopped = FALSE
    /\ is_scanning = FALSE
    /\ directory_data = <<>>
    /\ file_stats = NoStats
    /\ threads = [t \in Slots |-> IdleThread]
    /\ scanCfg = NoCfg
    /\ cfgDirty = FALSE
    /\ uiEvents = 0
    /\ overlapped = FALSE
    /\ prev = NoPrev
    /\ lastDone = NoneDone
    /\ justFinished = FALSE
    /\ tree_view = {}
    /\ scan_logs = {}
    /\ completion = NoCompletion
    /\ progress = NoProgress
    /\ progress_var = "ready"
    /\ detail_view = <<>>
    /\ sort_state = NoSort
    /\ export_enabled = FALSE

NextFilter ==
    \/ ToggleScanStart
    \/ \E t \in Slots :
          \/ Entry(t)
          \/ Partition(t)
          \/ FileAppend(t)
          \/ FileStat(t)
          \/ ScanCheck(t)
          \/ Finally(t)

SpecFilter == InitFilter /\ [][NextFilter]_vars

\* ---------------------------------------------------------------- what the claims speak of
Results == {directory_data[i] : i \in DOMAIN directory_data}
InResult(p, kind) == \E e \in Results : e.path = p /\ e.kind = kind
FileCount == Cardinality({i \in DOMAIN directory_data : directory_data[i].kind = "File"})
AliveCount == Cardinality({t \in Slots : Alive(t)})

IsProperPrefix(p, q) == Len(p) < Len(q) /\ SubSeq(q, 1, Len(p)) = p

\* a qualifying descendant of the folder p: a File or kept Directory record under it
HasQualifyingDescendant(p) == \E e \in Results : IsProperPrefix(p, e.path)

TreeFiles == {e \in tree : e.kind = "file" /\ e.path # <<>>}
TreeFolders == {e \in tree : e.kind \in {"dir", "denied", "broken"} /\ e.path # <<>>}

\* The traversal under the settings c lists the entry at p: p is within the depth
\* limit and every folder above it is readable and not skipped as hidden.
Listed(p, c) ==
    /\ Len(p) <= c.max_depth
    /\ \A k \in 1..(Len(p) - 1) :
           /\ KindOf(SubSeq(p, 1, k)) = "dir"
           /\ ~(~c.include_hidden /\ StartsWithDot(p[k]))

\* ... and, for a folder, its own name is not skipped as hidden
ListedFolder(p, c) == Listed(p, c) /\ ~(~c.include_hidden /\ StartsWithDot(p[Len(p)]))

\* every worker has finished, the latest scan was not stopped, and no setting was
\* edited while a worker of this result ran
Uncancelled ==
    /\ ~AnyAlive
    /\ lastDone.any
    /\ ~scan_stopped
    /\ ~cfgDirty

\* ---------------------------------------------------------------- claims
\* C1: under settings with maxDepth = d that nobody edits while a worker runs, no
\* record of the result (File or Directory) has a relative path of more than d segments.
DepthBound ==
    ~cfgDirty => \A e \in Results : Len(e.path) <= scanCfg.max_depth

\* C1 witness: a finished scan of a tree deeper than the limit that holds a record
\* exactly at the limit.
DepthBoundWitness ==
    /\ CleanResult
    /\ \E e \in tree : Len(e.path) > scanCfg.max_depth
    /\ \E e \in Results : Len(e.path) = scanCfg.max_depth

KeptFolderHasContent ==
    ~cfgDirty =>
        \A e \in Results :
            e.kind = "Directory" =>
                HasQualifyingDescendant(e.path) \/ scanCfg.show_empty_folders

\* C4 as stated: after an uncancelled scan, a file of the tree is in the result if
\* and only if should_include_file accepts it.
FilterAsStated ==
    CleanResult =>
        \A f \in TreeFiles :
            InResult(f.path, "File")
                <=> ShouldIncludeFile(f.path[Len(f.path)], scanCfg.include_hidden,
                                      scanCfg.file_extensions)

\* C4 amended: after an uncancelled scan, a file of the tree is in the result if and
\* only if should_include_file accepts it and the traversal lists it (it is within
\* the depth limit and every folder above it is readable and not skipped as hidden).
FilterOfListedFiles ==
    Uncancelled =>
        \A f \in TreeFiles :
            InResult(f.path, "File")
                <=> /\ Listed(f.path, scanCfg)
                    /\ ShouldIncludeFile(f.path[Len(f.path)], scanCfg.include_hidden,
                                         scanCfg.file_extensions)

\* C4 witness: a finished scan with a listed file in the result and a listed file
\* that the extension rule kept out.
FilterWitness ==
    /\ CleanResult
    /\ scanCfg.file_extensions # ExtAll
    /\ \E f, g \in TreeFiles :
           /\ Listed(f.path, scanCfg) /\ InResult(f.path, "File")
           /\ Listed(g.path, scanCfg) /\ ~InResult(g.path, "File")
           /\ ~StartsWithDot(g.path[Len(g.path)])

\* C5: when includeHidden is false (and is not edited while a worker runs), no record
\* of the result has a path segment that begins with ".", in every state.
NoHiddenSegment ==
    (~cfgDirty /\ ~scanCfg.include_hidden) =>
        \A e \in Results : \A k \in 1..Len(e.path) : ~StartsWithDot(e.path[k])

\* C5 witness: a finished scan with includeHidden false of a tree that holds a
\* hidden folder with a file in it, with a non-empty result.
NoHiddenSegmentWitness ==
    /\ CleanResult
    /\ ~scanCfg.include_hidden
    /\ \E d \in TreeFolders : StartsWithDot(d.path[Len(d.path)])
    /\ directory_data # <<>>

\* the sum of the per-extension counters, the no-extension bucket included
RECURSIVE SumOver(_, _)
SumOver(fs, keys) ==
    IF keys = {} THEN 0
    ELSE LET k == CHOOSE x \in keys : TRUE
         IN  fs[k] + SumOver(fs, keys \ {k})

ExtensionSum == SumOver(file_stats, DOMAIN file_stats \ {KeyFiles, KeyFolders})

\* the records of an uncancelled scan of the tree under the latest scan's settings
FullScan == ScanSet(<<>>, 0, scanCfg)

\* C6: a worker whose scan stop_scan stopped finishes with a result whose records
\* all belong to the uncancelled scan of the same tree under the same settings, and
\* with scan_stopped true (the scan is reported as cancelled).
CancelledSubsetAndReported ==
    (lastDone.any /\ lastDone.stopRequested /\ ~cfgDirty) =>
        (Results \subseteq FullScan /\ lastDone.flag)

\* C7: a worker that has observed the flag as set appends no further record.
NoAppendAfterObservedStop == \A t \in Slots : ~threads[t].lateAppend

\* C7, for scans that no start_scan overlaps and with show_empty_folders at its
\* constructor value: a worker that has observed the flag as set appends no further
\* record.
NoLateAppendAlone ==
    (~overlapped /\ ~show_empty_folders) => NoAppendAfterObservedStop

\* C8: when the scan has ended (no worker is left), the file counter equals the
\* number of File records and the per-extension counters add up to the file counter.
StatsConsistentAtEnd ==
    (~AnyAlive /\ lastDone.any) =>
        /\ StatGet(file_stats, KeyFiles) = FileCount
        /\ ExtensionSum = StatGet(file_stats, KeyFiles)

\* C9: an uncancelled scan that follows an uncancelled scan of the same tree under
\* the same settings yields the same result list, in the same order, and the same
\* counters.
ScanDeterministic ==
    (CleanResult /\ prev.cfg = scanCfg) =>
        (directory_data = prev.data /\ file_stats = prev.stats)

\* C9 witness: two such scans, one after the other, with at least two records.
ScanDeterministicWitness ==
    /\ CleanResult
    /\ prev.cfg = scanCfg
    /\ Len(prev.data) >= 2
    /\ Len(directory_data) >= 2

\* C10: at most one scan worker is alive at any time.
AtMostOneWorker == AliveCount <= 1

\* ---------------------------------------------------------------- lemmas
\* Whatever the clicks, while the settings are not edited under a running worker the
\* result holds only records of the uncancelled scan.
ResultWithinFullScan == ~cfgDirty => Results \subseteq FullScan

\* An uncancelled scan yields exactly the records of ScanSet.
ResultIsFullScan == Uncancelled => Results = FullScan

\* Without a start_scan that overlaps a running worker: kept folders have content,
\* a stopped worker finishes with the flag set, and the counters agree at the end.
KeptFolderHasContentAlone == ~overlapped => KeptFolderHasContent
ReportedCancelledAlone ==
    (~overlapped /\ lastDone.any /\ lastDone.stopRequested) => lastDone.flag
StatsConsistentAlone == ~overlapped => StatsConsistentAtEnd

\* ---------------------------------------------------------------- claims C11..C20
\* C11: the flag is never reset to False while the worker of a stopped scan is
\* still running: a live worker whose scan stop_scan stopped finds the flag set.
FlagStaysSet ==
    \A t \in Slots : (Alive(t) /\ threads[t].stopRequested) => scan_stopped

\* C12: a scan that ran alone to completion yields the records of the settings read
\* at its start_scan, whatever was edited on the UI thread while its worker ran.
ConfigFixedDuringScan ==
    (~AnyAlive /\ lastDone.any /\ lastDone.completed /\ ~scan_stopped /\ ~overlapped)
        => Results = FullScan

\* C13: after start_scan begins a scan, no worker of an earlier scan appends to the
\* result.
OnlyOwnAppends == \A t \in Slots : ~threads[t].staleAppend

\* C14: when the root path is missing or is not a directory, start_scan surfaces an
\* error and nothing begins: no worker, no listing, is_scanning stays False.
InvalidRootRefused ==
    RootKind # "dir" =>
        /\ ~AnyAlive
        /\ ~is_scanning
        /\ tree_view = {}
        /\ uiEvents > 0 => ScanFailed \in scan_logs

\* the folders an uncancelled scan under the settings c tries to list
ListingAttempted(p, c) == ListedFolder(p, c) /\ Len(p) < c.max_depth

FolderCount ==
    Cardinality({i \in DOMAIN directory_data : directory_data[i].kind = "Directory"})

\* C15: after a scan that nobody stopped, every folder whose listing raised has its
\* diagnostic in the log (a warning for PermissionError, an error otherwise) and no
\* record below it, every other branch is in the result as if the folder were empty,
\* and the scan has finished as a completion.
ListingErrorsRecovered ==
    Uncancelled =>
        /\ \A d \in TreeFolders :
               (d.kind \in {"denied", "broken"} /\ ListingAttempted(d.path, scanCfg)) =>
                   /\ [what |-> "dir_error", path |-> d.path,
                       severity |-> IF d.kind = "denied" THEN "warning" ELSE "error"]
                          \in scan_logs
                   /\ ~HasQualifyingDescendant(d.path)
        /\ Results = FullScan
        /\ completion.posted

\* C15 witness: a finished scan in which a folder's listing raised and a sibling
\* that sorts after that folder is in the result.
ListingErrorsWitness ==
    /\ Uncancelled
    /\ \E d \in TreeFolders :
           /\ d.kind \in {"denied", "broken"}
           /\ ListingAttempted(d.path, scanCfg)
           /\ \E e \in Results :
                  /\ Len(e.path) = Len(d.path)
                  /\ StrLess(d.path[Len(d.path)], e.name)

\* C16: every change of the tree view is made by a step of the UI thread, never by
\* a step of a scan worker.
WorkerNeverTouchesUi == [][tree_view' = tree_view \/ uiEvents' # uiEvents]_vars

\* the files processed since the progress update handed over last
FilesSinceProgress ==
    Cardinality({i \in DOMAIN directory_data :
                    i > progress.at /\ directory_data[i].kind = "File"})

\* C17: whatever the succession of File and Directory records, a progress update
\* is issued at least once for every ten files processed.
ProgressEveryTenFiles == FilesSinceProgress < ProgressEvery

\* C17 for results without Directory records.
ProgressEveryTenFilesOnly == FolderCount = 0 => ProgressEveryTenFiles

\* C18: when the latest scan has run to completion (nobody stopped it and no worker
\* is left), the completion entry has been handed over and carries the numbers of
\* File and Directory records of the result.
CompletionDelivered ==
    (~AnyAlive /\ lastDone.any /\ ~scan_stopped) =>
        /\ completion.posted
        /\ completion.files = FileCount
        /\ completion.folders = FolderCount

\* C18 witness: a completed scan without any file, and with a folder, whose
\* completion entry has been handed over.
CompletionWitness ==
    /\ CleanResult
    /\ completion.posted
    /\ FileCount = 0
    /\ FolderCount > 0

\* ascending order of two names by code point, character by character
CodePointLess(a, b) ==
    \E k \in 1..(Len(b)) :
        /\ k <= Len(a) + 1
        /\ \A i \in 1..(k - 1) : a[i] = b[i]
        /\ k = Len(a) + 1 \/ CodePoint(a[k]) < CodePoint(b[k])

ParentOf(p) == SubSeq(p, 1, Len(p) - 1)

\* the record at p lies in the subtree of the subdirectory named c of the directory d
\* (the Directory record of that subdirectory included)
InSubdirectory(e, d, c) ==
    /\ Len(e.path) > Len(d)
    /\ SubSeq(e.path, 1, Len(d)) = d
    /\ e.path[Len(d) + 1] = c
    /\ Len(e.path) > Len(d) + 1 \/ e.kind = "Directory"

\* C19: in the result list, the File records of one directory are in ascending name
\* order and precede every record coming from its subdirectories; the subdirectories
\* of one directory come one after the other in ascending name order; and a Directory
\* record follows every record of its own subtree.
ResultOrder ==
    \A i, j \in DOMAIN directory_data :
        LET a == directory_data[i]
            b == directory_data[j]
        IN  i < j =>
              /\ (a.kind = "File" /\ b.kind = "File" /\ ParentOf(a.path) = ParentOf(b.path))
                    => CodePointLess(a.name, b.name)
              /\ b.kind = "File"
                    => ~InSubdirectory(a, ParentOf(b.path), a.path[Len(ParentOf(b.path)) + 1])
              /\ \A k \in 0..(Len(a.path) - 1) :
                     (InSubdirectory(a, SubSeq(a.path, 1, k), a.path[k + 1])
                      /\ Len(b.path) > k
                      /\ InSubdirectory(b, SubSeq(a.path, 1, k), b.path[k + 1])
                      /\ a.path[k + 1] # b.path[k + 1])
                        => CodePointLess(a.path[k + 1], b.path[k + 1])
              /\ a.kind = "Directory" => ~IsProperPrefix(a.path, b.path)

\* C19 for scans that no start_scan overlaps.
ResultOrderAlone == ~overlapped => ResultOrder

\* the scan state C20 speaks of
ScanState ==
    [scan_stopped |-> scan_stopped, is_scanning |-> is_scanning,
     directory_data |-> directory_data, file_stats |-> file_stats]

\* what stop_scan makes of a scan state
StopScanState(s) == [s EXCEPT !.scan_stopped = TRUE, !.is_scanning = FALSE]

\* C20: a call of stop_scan leaves a scan state that a second call would not change,
\* and a call made once the scan has finished (no worker is left) leaves the scan
\* state (scan_stopped, is_scanning, result list, counters) as it was.
StopIdempotentNoOpAfterFinish ==
    [][(ToggleScanStop \/ ToggleScanStopLate) =>
          /\ ScanState' = StopScanState(ScanState)
          /\ StopScanState(ScanState') = ScanState'
          /\ ~AnyAlive => ScanState' = ScanState]_vars

\* ---------------------------------------------------------------- lemmas for C11..C18
\* A root that is missing, or no root at all, is refused as C14 says.
MissingRootRefused == RootKind \in {"none", "missing"} => InvalidRootRefused

\* Without a start_scan that overlaps a running worker the flag stays set and every
\* append is the latest worker's own.
FlagStaysSetAlone == ~overlapped => FlagStaysSet
OnlyOwnAppendsAlone == ~overlapped => OnlyOwnAppends

\* While nothing is edited under a running worker the settings of start_scan decide
\* the result.
ConfigFixedWhenNotEdited == ~cfgDirty => ConfigFixedDuringScan

\* C20, first half: a call of stop_scan leaves a scan state that a second call would
\* not change.
StopIdempotent ==
    [][(ToggleScanStop \/ ToggleScanStopLate) =>
          /\ ScanState' = StopScanState(ScanState)
          /\ StopScanState(ScanState') = ScanState']_vars

\* ---------------------------------------------------------------- claims C21..C30
\* the names of the files of the root folder that the hidden rule lets through
VisibleNames ==
    {e.path[1] : e \in {x \in tree : x.kind = "file" /\ Len(x.path) = 1
                                     /\ ~(~include_hidden /\ StartsWithDot(x.path[1]))}}

\* a name or token without its leading dot
Undotted(x) == IF StartsWithDot(x) THEN Tail(x) ELSE x

\* the tokens of a filter string, stripped and lower-cased, the empty ones left out
NormTokens(f) ==
    LET toks == SplitComma(Strip(f))
    IN  {Lower(Strip(toks[i])) : i \in 1..Len(toks)} \ {<<>>}

\* the file's lower-cased extension, dotted or undotted, equals a normalised token
ExtMatches(name, f) ==
    \E x \in NormTokens(f) : Undotted(x) = Undotted(Lower(Suffix(name)))

\* a token written in the other letter case
SwapCaseChar(c) ==
    CASE c = "t" -> "T" [] c = "T" -> "t" [] c = "d" -> "D" [] c = "D" -> "d"
      [] OTHER -> c
SwapCase(x) == [i \in 1..Len(x) |-> SwapCaseChar(x[i])]

\* a token written with its leading dot if it had none, without it if it had one
\* (the padding stays where it was)
VaryDot(x) ==
    LET body == LStrip(x)
        pad == SubSeq(x, 1, Len(x) - Len(body))
    IN  pad \o (IF StartsWithDot(body) THEN Tail(body) ELSE <<".">> \o body)

\* the filter strings that differ from f in the dot or the letter case of one token
Variants(f) ==
    LET toks == SplitComma(f)
    IN  {JoinComma([toks EXCEPT ![i] = VaryDot(toks[i])]) : i \in 1..Len(toks)}
            \cup {JoinComma([toks EXCEPT ![i] = SwapCase(toks[i])]) : i \in 1..Len(toks)}

\* the filter string is blank or the star: no filter
IsWildcard(f) == Strip(f) \in {<<>>, <<"*">>}

\* a filter string that names at least one extension and has no token that is a dot
\* and nothing else
NamesExtensions(f) ==
    /\ ~IsWildcard(f)
    /\ NormTokens(f) # {}
    /\ <<".">> \notin NormTokens(f)

BeginsListing(t) ==
    /\ Entry(t)
    /\ ~StopObserved
    /\ ~DepthLimitReached(Top(t).depth, max_depth)

\* the worker passes the flag check of the folders loop and calls scan_recursive
Descends(t) == FolderCall(t) /\ Len(threads'[t].stack) > Len(threads[t].stack)

\* C22: once stop_scan has set the flag while a worker is traversing, and as long as
\* no start_scan has cleared it, the worker begins no directory listing and no
\* recursive descent (every listing and every descent follows a flag check in the
\* same step, so "after its next flag check" is "from the stop on"); and the worker
\* ends, after which is_scanning is False, unless a new scan is started.
CancellationResponse ==
    /\ [][\A t \in Slots :
             (threads[t].stopRequested /\ scan_stopped)
                 => ~(BeginsListing(t) \/ Descends(t))]_vars
    /\ (AnyAlive /\ scan_stopped) ~> (~scan_stopped \/ (~AnyAlive /\ ~is_scanning))

\* a worker that was stopped while traversing has ended, nothing was started since,
\* and part of the tree is missing from the result
CancellationWitness ==
    /\ ~AnyAlive
    /\ lastDone.any /\ lastDone.stopRequested
    /\ scan_stopped /\ ~is_scanning
    /\ ~overlapped /\ ~cfgDirty
    /\ Results \subseteq FullScan /\ Results # FullScan

\* C23: in every reachable state, whatever the starts and stops, no two records of
\* the result list have the same relative path.
PathsUnique ==
    \A i, j \in DOMAIN directory_data :
        i # j => directory_data[i].path # directory_data[j].path

\* C23 for results that no overlapping start_scan reached.
PathsUniqueAlone == ~overlapped => PathsUnique

\* C24: the result list and the counters change only in a step of a scan worker or
\* of start_scan; stop_scan, the column sorts, update_display (through
\* change_display_mode) and the exports leave both as they were.
ResultWrittenOnlyByScan ==
    [][/\ (directory_data' # directory_data \/ file_stats' # file_stats)
             => (ToggleScanStart \/ \E t \in Slots : Worker(t))
       /\ (ToggleScanStop \/ ToggleScanStopLate \/ SortTreeColumn \/ SortDetailColumn
             \/ ChangeDisplayMode \/ ExportToExcel \/ ExportToCsv \/ ExportToJson)
             => UNCHANGED <<directory_data, file_stats>>]_vars

\* a scan has ended with a result, its rows were sorted by the path column and the
\* result was exported to a CSV file
ResultWrittenWitness ==
    /\ ~AnyAlive /\ lastDone.any
    /\ directory_data # <<>>
    /\ detail_view # <<>>
    /\ sort_state.detail_sort_column = "path"
    /\ [what |-> "csv", path |-> <<>>, severity |-> "success"] \in scan_logs

\* C25: under an extension filter, after an uncancelled scan, every folder the
\* traversal lists (not hidden, within the depth limit) is descended into whatever
\* its name (the accepted files directly in it are in the result when the folder is
\* above the depth limit), and it is recorded whenever a record lies under it or
\* showEmptyFolders is true.
FoldersNotFilteredByExtension ==
    (Uncancelled /\ ~IsWildcard(scanCfg.file_extensions)) =>
        \A d \in TreeFolders :
            ListedFolder(d.path, scanCfg) =>
                /\ ListingAttempted(d.path, scanCfg) =>
                       \A f \in TreeFiles :
                           (/\ Len(f.path) = Len(d.path) + 1
                            /\ IsProperPrefix(d.path, f.path)
                            /\ FileTaken(f.path[Len(f.path)], scanCfg.include_hidden,
                                         scanCfg.file_extensions))
                               => InResult(f.path, "File")
                /\ (HasQualifyingDescendant(d.path) \/ scanCfg.show_empty_folders)
                       => InResult(d.path, "Directory")

\* under the filter " T" a scan has ended with the file b.d/a.t and the folder b.d,
\* whose name ends in an extension the filter does not name, in the result
FoldersNotFilteredWitness ==
    /\ Uncancelled
    /\ scanCfg.file_extensions = ExtT
    /\ InResult(<<NameBD, NameAT>>, "File")
    /\ InResult(<<NameBD>>, "Directory")

\* the call of scan_recursive in the frame f has listed its folder: it is past the
\* depth check and os.listdir, in one of the three loops or waiting for a deeper call
Enumerated(f) == f.pc \notin {"entry", "return"}

\* C26: under settings nobody edits while a worker runs, no call of scan_recursive
\* lists a folder whose relative path has maxDepth segments or more; and after an
\* uncancelled scan a listed folder with exactly maxDepth segments is in the result
\* if and only if showEmptyFolders is true, with no record under it, whatever it holds.
DepthBoundary ==
    /\ ~cfgDirty =>
           \A t \in Slots : \A i \in DOMAIN threads[t].stack :
               Enumerated(threads[t].stack[i])
                   => Len(threads[t].stack[i].path) < scanCfg.max_depth
    /\ Uncancelled =>
           \A d \in TreeFolders :
               (Len(d.path) = scanCfg.max_depth /\ ListedFolder(d.path, scanCfg)) =>
                   /\ InResult(d.path, "Directory") <=> scanCfg.show_empty_folders
                   /\ ~HasQualifyingDescendant(d.path)

\* a scan with maxDepth = 2 and showEmptyFolders has ended: the folder s/d, which
\* holds the file c.T, is recorded and the file is not
DepthBoundaryWitness ==
    /\ Uncancelled
    /\ tree = TreeDeep
    /\ scanCfg.max_depth = 2
    /\ scanCfg.show_empty_folders
    /\ InResult(<<NameS, NameD>>, "Directory")
    /\ ~InResult(<<NameS, NameD, NameCUpper>>, "File")

\* the latest scan ran alone, stop_scan was called while its worker ran, the worker
\* took the stopped branch and has ended with everything it handed over delivered,
\* and no scan was started since
CancelledAndEnded ==
    /\ ~AnyAlive
    /\ lastDone.any
    /\ lastDone.stopRequested
    /\ ~lastDone.completed
    /\ scan_stopped
    /\ ~overlapped

\* C27: after a scan cancelled by stop_scan has ended and every update it queued
\* has run, the status text does not report the scan as completed.
StoppedNeverCompleted ==
    CancelledAndEnded => progress_var \notin {"scan_done", "scan_done_counts"}

\* ... and it reports the scan as stopped (also violated: a cancelled scan that
\* accumulated no record ends with the text of a scanner that has not scanned yet)
StoppedStatusFinal ==
    CancelledAndEnded => progress_var = "stopped"

\* the other half of C27, which holds: the status of a cancelled scan that has ended
\* is the completed text exactly when records were accumulated, and those records
\* are still in the result list
StoppedScanKeepsPartialResult ==
    CancelledAndEnded =>
        /\ progress_var \in {"scan_done_counts", "ready", "stopped"}
        /\ (progress_var = "scan_done_counts") => directory_data # <<>>
        /\ (progress_var = "ready") => directory_data = <<>>
        /\ ~cfgDirty => Results \subseteq FullScan

\* C28: in every reachable state is_scanning is True if and only if some worker has
\* started and not yet finished.
IsScanningIffWorkerRuns == is_scanning <=> AnyAlive

\* the half of C28 that holds: while is_scanning is True a worker is running
IsScanningImpliesWorkerRuns == is_scanning => AnyAlive

\* C29: a start_scan that refuses the directory (none chosen, or a path that does not
\* exist) leaves the result list, the counters, scan_stopped, is_scanning, the
\* threads and the result widgets as they were; it adds its entry to the log.
RefusedStartChangesOnlyLog ==
    [][ToggleScanRefused =>
          /\ UNCHANGED <<directory_data, file_stats, scan_stopped, is_scanning, threads>>
          /\ UNCHANGED <<present, tree_view>>
          /\ ScanFailed \in scan_logs']_vars

\* a start was refused after a scan had left records in the result list
RefusedStartWitness ==
    /\ RootKind \in {"none", "missing"}
    /\ ScanFailed \in scan_logs
    /\ directory_data # <<>>
    /\ file_stats # NoStats
    /\ ~AnyAlive

\* the entry add_log writes at the end of an export
ExportLogged(format, severity) == [what |-> format, path |-> <<>>, severity |-> severity]

\* C30: a JSON export of a non-empty result to a file that can be written ends in
\* the success outcome and not in the export-failed error outcome.
JsonExportSucceeds ==
    [][(export_enabled /\ directory_data # <<>> /\ ExportTo("json", TRUE, TRUE)) =>
          /\ ExportLogged("json", "success") \in scan_logs'
          /\ ExportLogged("json", "error") \in scan_logs'
                 => ExportLogged("json", "error") \in scan_logs]_vars

\* the same statement for the CSV export, which holds
CsvExportSucceeds ==
    [][(export_enabled /\ directory_data # <<>> /\ ExportTo("csv", TRUE, TRUE)) =>
          /\ ExportLogged("csv", "success") \in scan_logs'
          /\ ExportLogged("csv", "error") \in scan_logs'
                 => ExportLogged("csv", "error") \in scan_logs]_vars

====
